---- MODULE Spec2Model ----
(***************************************************************************)
(* Temporal-fusion text (src/src/index.ts): glyph layout, the even/odd    *)
(* off-screen buffers, the refresh probe, the mode decision of run(), the *)
(* requestAnimationFrame swap loop and the multi-paragraph orchestrator   *)
(* renderTemporalFusionParagraphs.                                         *)
(*                                                                         *)
(* Time is counted in ticks of 1/3 ms, so that the frame periods of 60 Hz  *)
(* (50 ticks) and 120 Hz (25 ticks) displays are integers.  A number that  *)
(* the code computes by a division (swapInterval) is kept as a fraction.   *)
(* Opacity is counted in percent.                                          *)
(***************************************************************************)
EXTENDS Integers, Sequences, FiniteSets, TLC

---------------------------------------------------------------------------
(* Bounds of the model.                                                    *)

\* longest text of a paragraph, in characters
MaxLen == 4
\* most paragraphs handed to renderTemporalFusionParagraphs
MaxParagraphs == 2
\* most calls of run() on a directly constructed block
MaxRuns == 2
\* the host stops delivering frames after this time (ticks)
MaxTime == 230

---------------------------------------------------------------------------
(* Program constants.                                                      *)

\* x += w + 2
Gap == 2

\* the clock's ticks per second: 1000 ms of 3 ticks
TicksPerSecond == 1000 * 3

NL == "\n"

Chars == {"A", "B", "C"}

DEFAULT_OPTIONS ==
    [font |-> "32px Segoe UI", color |-> "#808080", opacity |-> 55,
     minSafeHz |-> 120, marginX |-> 40, marginY |-> 36, lineHeight |-> 48]

\* fillStyle of renderStatic
StaticFill == "#ffffff"

\* globalAlpha of a fresh 2D context (renderStatic never sets it)
DefaultAlpha == 100

---------------------------------------------------------------------------
(* Options: { ...DEFAULT_OPTIONS, ...opts }                                *)

Has(partial, k) == k \in DOMAIN partial

MergeOptions(defaults, partial) ==
    [k \in (DOMAIN defaults) \cup (DOMAIN partial) |->
        IF Has(partial, k) THEN partial[k] ELSE defaults[k]]

\* a ?? b on an optional field of the caller's options
Coalesce(partial, k, dflt) == IF Has(partial, k) THEN partial[k] ELSE dflt

---------------------------------------------------------------------------
(* computeLayout                                                           *)

Glyph(ch, x, y) == [ch |-> ch, x |-> x, y |-> y]

\* a wrap test that also wraps the glyph that exactly fills the line
Wraps_Inclusive(x, w, maxX) == x + w >= maxX

\* a wrap test that looks at where the glyph starts only
Wraps_StartOnly(x, w, maxX) == x > maxX

\* if (x + w > maxX)
Wraps(x, w, maxX) == x + w > maxX

\* a glyph advance without the gap
Advance_NoGap(x, w) == x + w

\* x += w + 2
Advance(x, w) == x + w + Gap

\* a newline that moves down and keeps the horizontal position
NewlineCursor_KeepX(x, y, opts) == [x |-> x, y |-> y + opts.lineHeight]

\* if (ch === "\n") { x = marginX; y += lineHeight; continue; }
NewlineCursor(x, y, opts) == [x |-> opts.marginX, y |-> y + opts.lineHeight]

RECURSIVE LayoutFrom(_, _, _, _, _, _, _, _)
LayoutFrom(text, i, x, y, layout, maxX, opts, widthOf) ==
    IF i > Len(text) THEN layout
    ELSE LET ch == text[i] IN
         IF ch = NL
         THEN LayoutFrom(text, i + 1, NewlineCursor(x, y, opts).x,
                         NewlineCursor(x, y, opts).y, layout, maxX, opts, widthOf)
         ELSE LET w  == widthOf[ch]
                  px == IF Wraps(x, w, maxX) THEN opts.marginX ELSE x
                  py == IF Wraps(x, w, maxX) THEN y + opts.lineHeight ELSE y
              IN LayoutFrom(text, i + 1, Advance(px, w), py,
                            Append(layout, Glyph(ch, px, py)), maxX, opts, widthOf)

\* a layout whose for loop starts at the second character
ComputeLayout_SkipFirst(text, width, opts, widthOf) ==
    LayoutFrom(text, 2, opts.marginX, opts.marginY, <<>>,
               width - opts.marginX, opts, widthOf)

ComputeLayout(text, width, opts, widthOf) ==
    LayoutFrom(text, 1, opts.marginX, opts.marginY, <<>>,
               width - opts.marginX, opts, widthOf)

---------------------------------------------------------------------------
(* Numbers the host coerces: Math.max() of nothing is -Infinity, and a     *)
(* canvas dimension is an unsigned long limited to non-negative values.    *)

Num(v) == [finite |-> TRUE, value |-> v]

NegInfinity == [finite |-> FALSE, value |-> 0 - 1]

SeqMax(s) == CHOOSE m \in {s[i] : i \in 1..Len(s)} : \A i \in 1..Len(s) : s[i] <= m

\* Math.max(...layout.map((c) => c.y))
MaxY(layout) ==
    IF layout = <<>> THEN NegInfinity
    ELSE Num(SeqMax([i \in 1..Len(layout) |-> layout[i].y]))

\* maxY + (opts.lineHeight ?? DEFAULT) + (opts.marginY ?? DEFAULT)
SizingHeight(layout, partial) ==
    LET maxY == MaxY(layout) IN
    IF maxY.finite
    THEN Num(maxY.value
             + Coalesce(partial, "lineHeight", DEFAULT_OPTIONS.lineHeight)
             + Coalesce(partial, "marginY", DEFAULT_OPTIONS.marginY))
    ELSE NegInfinity

\* canvas.width = n, canvas.height = n: a non-finite number becomes 0, a
\* negative one the attribute's default (300 for width, 150 for height)
CanvasDim(n, dflt) ==
    IF ~n.finite THEN 0 ELSE IF n.value < 0 THEN dflt ELSE n.value

NewCanvas(w, h) == [width |-> w, height |-> h, pixels |-> <<>>]

---------------------------------------------------------------------------
(* Painting.  A surface's pixels are the fillText calls made on it since   *)
(* it was last cleared: the layout index of the glyph, the glyph, and the  *)
(* fill style and alpha it was drawn with.                                 *)

Paint(i, g, fill, alpha) ==
    [i |-> i, ch |-> g.ch, x |-> g.x, y |-> g.y, fill |-> fill, alpha |-> alpha]

\* the parity test on an index that counts from 1
TargetOf_FromOne(i) == IF (i + 1) % 2 = 0 THEN "A" ELSE "B"

\* const ctx = i % 2 === 0 ? this.offA : this.offB   (i counts from 0)
TargetOf(i) == IF i % 2 = 0 THEN "A" ELSE "B"

RECURSIVE PaintFrom(_, _, _, _, _)
PaintFrom(layout, k, target, opts, acc) ==
    IF k > Len(layout) THEN acc
    ELSE PaintFrom(layout, k + 1, target, opts,
                   IF TargetOf(k - 1) = target
                   THEN Append(acc, Paint(k - 1, layout[k], opts.color, opts.opacity))
                   ELSE acc)

\* a constructor that leaves the targets to be painted later
RenderBuffers_Deferred(layout, opts, target) == <<>>

\* renderBuffers: both targets cleared, then every glyph drawn on its target
RenderBuffers(layout, opts, target) == PaintFrom(layout, 1, target, opts, <<>>)

\* a static paint that stops one glyph short
RenderStatic_DropLast(layout) ==
    [k \in 1..(Len(layout) - 1) |-> Paint(k - 1, layout[k], StaticFill, DefaultAlpha)]

\* renderStatic: the surface cleared, then every glyph drawn on it
RenderStatic(layout) ==
    [k \in 1..Len(layout) |-> Paint(k - 1, layout[k], StaticFill, DefaultAlpha)]

\* clearRect, then drawImage(src, 0, 0)
DrawImage(src) == <<>> \o src.pixels

---------------------------------------------------------------------------
(* The refresh probe and the mode decision.                                *)

\* Math.round of a positive fraction: halves round up
MathRound(num, den) == (2 * num + den) \div (2 * den)

\* Math.round(1000 / ((t2 - t0) / 2))
DetectRefresh(t0, t2) == MathRound(2 * TicksPerSecond, t2 - t0)

\* const safeHz = refresh * 2
SafeHz(refresh) == refresh * 2

\* the comparison taken one too far: safeHz <= minSafeHz
GoStatic_Inclusive(safeHz, minSafeHz, reduced) == safeHz <= minSafeHz \/ reduced

\* safeHz < minSafeHz || matchMedia("(prefers-reduced-motion: reduce)").matches
GoStatic(safeHz, minSafeHz, reduced) == safeHz < minSafeHz \/ reduced

\* a fraction num/den of ticks; den = 0 is Infinity
Fraction(num, den) == [num |-> num, den |-> den]

\* the interval of one measured frame: 1000 / refresh
SwapIntervalOf_FramePeriod(safeHz) == Fraction(2 * TicksPerSecond, safeHz)

\* this.swapInterval = 1000 / safeHz   (ms, kept in ticks)
SwapIntervalOf(safeHz) == Fraction(TicksPerSecond, safeHz)

\* a swap test that lets an exactly elapsed interval pass
SwapDue_Strict(now, lastSwap, interval) ==
    (now - lastSwap) * interval.den > interval.num

\* now - this.lastSwap >= this.swapInterval
SwapDue(now, lastSwap, interval) == (now - lastSwap) * interval.den >= interval.num

---------------------------------------------------------------------------
(* State.                                                                  *)

VARIABLES
    measure,      \* host font metrics: measureText(ch).width of each character
    paragraphs,   \* the caller's texts
    opts,         \* the caller's partial FusionOptions (and optional width)
    clientWidth,  \* container.clientWidth
    clock,        \* the timestamp of the current frame; performance.now() read
                  \* in a callback of the frame is taken to be the same
    reducedMotion,\* matchMedia("(prefers-reduced-motion: reduce)").matches
    rafQueue,     \* callbacks requested for the next frame, in request order
    frameQueue,   \* callbacks of the current frame not yet run
    surface,      \* canvas id -> the visible canvas (width, height, pixels)
    container,    \* canvas ids appended to the container, in order
    obj,          \* block id -> the fields of a TemporalFusionText
    orchPc,       \* where renderTemporalFusionParagraphs stands
    orchIdx,      \* paragraphs whose iteration has started
    orchActive,   \* the value the awaited run() resolved with
    results,      \* the results array
    thrown,       \* message of the Error thrown to the caller, "" if none
    layoutOut,    \* what the last direct call of computeLayout returned
    runLog,       \* block id -> what each resolved run() read and returned
    tickLog       \* block id -> timestamp and toggle of each loop tick

inputVars == <<measure, paragraphs, opts, clientWidth>>
hostVars  == <<clock, reducedMotion, rafQueue, frameQueue>>
domVars   == <<surface, container>>
orchVars  == <<orchPc, orchIdx, orchActive, results>>
logVars   == <<runLog, tickLog>>

vars == <<measure, paragraphs, opts, clientWidth, clock, reducedMotion, rafQueue, frameQueue,
          surface, container, obj, orchPc, orchIdx, orchActive, results,
          thrown, layoutOut, runLog, tickLog>>

\* const width = opts.width ?? container.clientWidth
OrchWidth == Coalesce(opts, "width", clientWidth)

\* a requested frame callback: the promise of detectRefresh's first or second
\* await (with the t0 it closed over), or this.loop
Callback(kind, b, t0) == [kind |-> kind, block |-> b, t0 |-> t0]

\* outcomes of the getContext calls of one construction
ContextOutcomes == {"ok", "main", "offA", "offB"}

ErrorOf(outcome) ==
    IF outcome = "main" THEN "Cannot get 2D context"
    ELSE "Cannot create offscreen context"

\* the constructor, when every getContext succeeds
NewBlock(c, canvas, text, partial) ==
    LET o      == MergeOptions(DEFAULT_OPTIONS, partial)
        layout == ComputeLayout(text, canvas.width, o, measure)
        off(t) == [NewCanvas(canvas.width, canvas.height)
                      EXCEPT !.pixels = RenderBuffers(layout, o, t)]
    IN [canvas |-> c, opts |-> o, charLayout |-> layout,
        offA |-> off("A"), offB |-> off("B"),
        parity |-> 0, lastSwap |-> 0, swapInterval |-> Fraction(0, 1)]

\* no continuation of the orchestrator is waiting to run: frame callbacks run
\* only after the microtasks of the previous callback have finished
Quiescent == orchPc \notin {"iterate", "resumed"}

PendingProbes(b) ==
    Cardinality({i \in 1..Len(rafQueue) :
                    rafQueue[i].block = b /\ rafQueue[i].kind # "loop"})
    + Cardinality({i \in 1..Len(frameQueue) :
                    frameQueue[i].block = b /\ frameQueue[i].kind # "loop"})

---------------------------------------------------------------------------
(* The host delivers a frame.                                              *)

Deltas == {25, 50, 51}

\* the user's reduced-motion preference may have changed since the last frame:
\* media queries are evaluated before the callbacks of a frame run
Frame(d, reduced) ==
    /\ Quiescent
    /\ frameQueue = <<>>
    /\ rafQueue # <<>>
    /\ clock + d <= MaxTime
    /\ clock' = clock + d
    /\ reducedMotion' = reduced
    /\ frameQueue' = rafQueue
    /\ rafQueue' = <<>>
    /\ UNCHANGED <<inputVars, domVars, obj, orchVars, thrown, layoutOut, logVars>>

\* detectRefresh after its first await: await new Promise(requestAnimationFrame)
ProbeFirstFrame ==
    /\ Quiescent
    /\ frameQueue # <<>>
    /\ Head(frameQueue).kind = "probe1"
    /\ frameQueue' = Tail(frameQueue)
    /\ rafQueue' = Append(rafQueue,
                          Callback("probe2", Head(frameQueue).block, Head(frameQueue).t0))
    /\ UNCHANGED <<inputVars, clock, reducedMotion, domVars, obj, orchVars, thrown,
                   layoutOut, logVars>>

\* detectRefresh after its second await, and the rest of run()
ProbeSecondFrame ==
    /\ Quiescent
    /\ frameQueue # <<>>
    /\ Head(frameQueue).kind = "probe2"
    /\ LET b       == Head(frameQueue).block
           refresh == DetectRefresh(Head(frameQueue).t0, clock)
           safeHz  == SafeHz(refresh)
           static  == GoStatic(safeHz, obj[b].opts.minSafeHz, reducedMotion)
       IN /\ frameQueue' = Tail(frameQueue)
          /\ IF static
             THEN /\ surface' = [surface EXCEPT ![obj[b].canvas].pixels =
                                                    RenderStatic(obj[b].charLayout)]
                  /\ UNCHANGED <<obj, rafQueue>>
             ELSE /\ obj' = [obj EXCEPT ![b].swapInterval = SwapIntervalOf(safeHz)]
                  /\ rafQueue' = Append(rafQueue, Callback("loop", b, 0))
                  /\ UNCHANGED surface
          /\ runLog' = [runLog EXCEPT ![b] =
                           Append(@, [refresh |-> refresh, reduced |-> reducedMotion,
                                      active |-> ~static])]
          /\ IF orchPc = "awaitRun" /\ b = orchIdx
             THEN orchPc' = "resumed" /\ orchActive' = ~static
             ELSE UNCHANGED <<orchPc, orchActive>>
    /\ UNCHANGED <<inputVars, clock, reducedMotion, container, orchIdx, results, thrown,
                   layoutOut, tickLog>>

\* the targets taken the other way round
SourceOf_Swapped(parity, block) == IF parity = 1 THEN block.offA ELSE block.offB

\* this.parity ? this.offB : this.offA
SourceOf(parity, block) == IF parity = 1 THEN block.offB ELSE block.offA

\* a tick that does not ask for the next frame
Rerequest_Stop(queue, b) == queue

\* requestAnimationFrame(this.loop), at the end of loop
Rerequest(queue, b) == Append(queue, Callback("loop", b, 0))

\* this.loop(now)
LoopTick ==
    /\ Quiescent
    /\ frameQueue # <<>>
    /\ Head(frameQueue).kind = "loop"
    /\ LET b      == Head(frameQueue).block
           now    == clock
           swap   == SwapDue(now, obj[b].lastSwap, obj[b].swapInterval)
           parity == IF swap THEN 1 - obj[b].parity ELSE obj[b].parity
           src    == SourceOf(parity, obj[b])
       IN /\ obj' = [obj EXCEPT ![b].parity = parity,
                                ![b].lastSwap = IF swap THEN now ELSE @]
          /\ surface' = [surface EXCEPT ![obj[b].canvas].pixels = DrawImage(src)]
          /\ rafQueue' = Rerequest(rafQueue, b)
          /\ tickLog' = [tickLog EXCEPT ![b] =
                            Append(@, [now |-> now, toggled |-> swap])]
    /\ frameQueue' = Tail(frameQueue)
    /\ UNCHANGED <<inputVars, clock, reducedMotion, container, orchVars, thrown,
                   layoutOut, runLog>>

HostNext ==
    \/ \E d \in Deltas, reduced \in BOOLEAN : Frame(d, reduced)
    \/ ProbeFirstFrame
    \/ ProbeSecondFrame
    \/ LoopTick

---------------------------------------------------------------------------
(* renderTemporalFusionParagraphs                                          *)

\* run() called and not awaited: the loop goes on to the next paragraph
AfterRunCall_NoAwait == "iterate"

\* where the orchestrator stands once it has called fusion.run(): it awaits
AfterRunCall == "awaitRun"

\* the result put in front of the array
PushResult_Front(rs, active) == <<active>> \o rs

\* results.push(active)
PushResult(rs, active) == Append(rs, active)

\* const layout = TemporalFusionText.computeLayout(text, width,
\*                    { ...DEFAULT_OPTIONS, ...opts })
SizingLayout(text) ==
    ComputeLayout(text, OrchWidth, MergeOptions(DEFAULT_OPTIONS, opts), measure)

\* one iteration of the for loop, up to the await of fusion.run(): the sizing
\* layout, the canvas created and appended, the block constructed, run() called
OrchIterate(outcome) ==
    /\ orchPc = "iterate"
    /\ orchIdx < Len(paragraphs)
    /\ LET b      == orchIdx + 1
           text   == paragraphs[b]
           layout == SizingLayout(text)
           height == SizingHeight(layout, opts)
           canvas == NewCanvas(CanvasDim(Num(OrchWidth), 300), CanvasDim(height, 150))
       IN /\ orchIdx' = b
          /\ surface' = surface @@ (b :> canvas)
          /\ container' = Append(container, b)
          /\ IF outcome = "ok"
             THEN /\ obj' = obj @@ (b :> NewBlock(b, canvas, text, opts))
                  /\ runLog' = runLog @@ (b :> <<>>)
                  /\ tickLog' = tickLog @@ (b :> <<>>)
                  /\ rafQueue' = Append(rafQueue, Callback("probe1", b, clock))
                  /\ orchPc' = AfterRunCall
                  /\ UNCHANGED thrown
             ELSE /\ thrown' = ErrorOf(outcome)
                  /\ orchPc' = "rejected"
                  /\ UNCHANGED <<obj, runLog, tickLog, rafQueue>>
    /\ UNCHANGED <<inputVars, clock, reducedMotion, frameQueue, orchActive, results, layoutOut>>

\* const active = await fusion.run(); results.push(active)
OrchResume ==
    /\ orchPc = "resumed"
    /\ results' = PushResult(results, orchActive)
    /\ orchPc' = "iterate"
    /\ UNCHANGED <<inputVars, hostVars, domVars, obj, orchIdx, orchActive, thrown,
                   layoutOut, logVars>>

\* return results
OrchReturn ==
    /\ orchPc = "iterate"
    /\ orchIdx = Len(paragraphs)
    /\ orchPc' = "returned"
    /\ UNCHANGED <<inputVars, hostVars, domVars, obj, orchIdx, orchActive, results,
                   thrown, layoutOut, logVars>>

OrchNext ==
    \/ \E outcome \in ContextOutcomes : OrchIterate(outcome)
    \/ OrchResume
    \/ OrchReturn

---------------------------------------------------------------------------
(* Inputs.                                                                 *)

\* "AB\nC" repeated
PatternChar(i) ==
    IF i % 4 = 1 THEN "A" ELSE IF i % 4 = 2 THEN "B" ELSE IF i % 4 = 3 THEN NL ELSE "C"

PatternText(n) == [i \in 1..n |-> PatternChar(i)]

\* the texts of the blocks that are run: no glyph, one glyph, several glyphs
SysTexts == {PatternText(n) : n \in {0, 1, MaxLen}}

AllTexts == UNION {[1..n -> Chars \cup {NL}] : n \in 0..MaxLen}

\* margins of 10, a line height of 20 and the given width
Custom(width) ==
    [minSafeHz |-> 118, marginX |-> 10, marginY |-> 10, lineHeight |-> 20,
     width |-> width]

\* the caller's options of the blocks that are run: none, a narrow surface, and
\* a width that is no canvas width
OptsSet == { <<>>, Custom(46), [width |-> 0 - 40] }

\* for the layout alone, also the widths at which the second glyph of a line
\* exactly fits (42) and is one unit too wide (41), and a surface narrower
\* than a glyph (25); and an opacity of 1.5
LayoutOptsSet ==
    OptsSet \cup {Custom(42), Custom(41), Custom(25), [opacity |-> 150]}

Widths == {0 - 3, 0, 10}

InitHost ==
    /\ clock = 0
    /\ rafQueue = <<>>
    /\ frameQueue = <<>>
    /\ thrown = ""
    /\ layoutOut = <<>>
    /\ obj = <<>>
    /\ runLog = <<>>
    /\ tickLog = <<>>
    /\ orchActive = FALSE
    /\ results = <<>>
    /\ orchIdx = 0

\* renderTemporalFusionParagraphs(container, paragraphs, opts) has been called
Init ==
    /\ InitHost
    /\ reducedMotion \in BOOLEAN
    /\ measure = [c \in Chars |-> 10]
    /\ paragraphs \in UNION {[1..n -> SysTexts] : n \in 0..MaxParagraphs}
    /\ opts \in OptsSet
    /\ clientWidth = 300
    /\ surface = <<>>
    /\ container = <<>>
    /\ orchPc = "iterate"

Next == OrchNext \/ HostNext

Spec == Init /\ [][Next]_vars

---------------------------------------------------------------------------
(* A caller that uses the class directly: new TemporalFusionText(canvas,   *)
(* text, opts) on a canvas of its own, then run(), which is public and can *)
(* be called again.                                                        *)

\* new TemporalFusionText(canvas, paragraphs[1], opts)
New(outcome) ==
    /\ obj = <<>>
    /\ thrown = ""
    /\ IF outcome = "ok"
       THEN /\ obj' = (1 :> NewBlock(1, surface[1], paragraphs[1], opts))
            /\ runLog' = (1 :> <<>>)
            /\ tickLog' = (1 :> <<>>)
            /\ UNCHANGED thrown
       ELSE /\ thrown' = ErrorOf(outcome)
            /\ UNCHANGED <<obj, runLog, tickLog>>
    /\ UNCHANGED <<inputVars, hostVars, domVars, orchVars, layoutOut>>

\* fusion.run(), up to the first await of detectRefresh
Run(b) ==
    /\ b \in DOMAIN obj
    /\ frameQueue = <<>>
    /\ Len(runLog[b]) + PendingProbes(b) < MaxRuns
    /\ rafQueue' = Append(rafQueue, Callback("probe1", b, clock))
    /\ UNCHANGED <<inputVars, clock, reducedMotion, frameQueue, domVars, obj, orchVars, thrown,
                   layoutOut, logVars>>

InitDirect ==
    /\ InitHost
    /\ clientWidth = 300
    /\ surface = (1 :> NewCanvas(CanvasDim(Num(OrchWidth), 300), 150))
    /\ container = <<>>
    /\ orchPc = "idle"

InitBlock ==
    /\ measure = [c \in Chars |-> 10]
    /\ paragraphs \in {<<t>> : t \in SysTexts}
    /\ opts \in OptsSet
    /\ reducedMotion \in BOOLEAN
    /\ InitDirect

NextBlock ==
    \/ \E outcome \in ContextOutcomes : New(outcome)
    \/ \E b \in DOMAIN obj : Run(b)
    \/ HostNext

SpecBlock == InitBlock /\ [][NextBlock]_vars

---------------------------------------------------------------------------
(* One block whose run() is called once, under a host that goes on: a      *)
(* frame is delivered while callbacks are requested (until the clock of    *)
(* the model ends), and the callbacks of a delivered frame are run.        *)

\* fusion.run(), called once
RunOnce ==
    /\ 1 \in DOMAIN obj
    /\ runLog[1] = <<>>
    /\ PendingProbes(1) = 0
    /\ Run(1)

InitLoop ==
    /\ measure = [c \in Chars |-> 10]
    /\ paragraphs = <<PatternText(MaxLen)>>
    /\ opts \in OptsSet
    /\ reducedMotion \in BOOLEAN
    /\ InitDirect

NextLoop ==
    \/ \E outcome \in ContextOutcomes : New(outcome)
    \/ RunOnce
    \/ HostNext

SpecLoop == InitLoop /\ [][NextLoop]_vars /\ WF_vars(HostNext)

---------------------------------------------------------------------------
(* The pure parts on every small input: computeLayout called directly, and *)
(* the constructor (layout and the two buffers).                           *)

\* TemporalFusionText.computeLayout(paragraphs[1], width, resolved opts)
LayoutCall ==
    /\ layoutOut = <<>>
    /\ layoutOut' = <<ComputeLayout(paragraphs[1], OrchWidth,
                                    MergeOptions(DEFAULT_OPTIONS, opts), measure)>>
    /\ UNCHANGED <<inputVars, hostVars, domVars, obj, orchVars, thrown, logVars>>

InitLayout ==
    /\ measure \in [Chars -> Widths]
    /\ paragraphs \in {<<t>> : t \in AllTexts}
    /\ opts \in LayoutOptsSet
    /\ reducedMotion = FALSE
    /\ InitDirect

NextLayout ==
    \/ LayoutCall
    \/ \E outcome \in ContextOutcomes : New(outcome)

SpecLayout == InitLayout /\ [][NextLayout]_vars

---------------------------------------------------------------------------
(* Properties.                                                             *)

Last(s) == s[Len(s)]

\* a loop callback of block b is requested or about to run
LoopScheduled(b) ==
    \/ \E i \in 1..Len(rafQueue) : rafQueue[i] = Callback("loop", b, 0)
    \/ \E i \in 1..Len(frameQueue) : frameQueue[i] = Callback("loop", b, 0)

\* run() of block b resolves in this step
Resolves(b) == Len(runLog'[b]) = Len(runLog[b]) + 1

\* what a surface shows, fill style and alpha left out
Shown(pixels) ==
    [k \in 1..Len(pixels) |->
        [i |-> pixels[k].i, ch |-> pixels[k].ch, x |-> pixels[k].x, y |-> pixels[k].y]]

\* every glyph of the layout once, at its layout position, in order
FullText(layout) ==
    [k \in 1..Len(layout) |->
        [i |-> k - 1, ch |-> layout[k].ch, x |-> layout[k].x, y |-> layout[k].y]]

\* C1: whenever run() resolves, with measured refresh r, minSafeHz m and the
\* reduced-motion answer it read, it has selected Fusing (resolved true, set
\* swapInterval and requested the loop, painted nothing) exactly if 2r >= m and
\* reduced motion is off, and Static (painted the text once, resolved false,
\* requested no frame) in every other case.
C1_ModeDecision ==
    [][\A b \in DOMAIN runLog :
         Resolves(b) =>
            LET e      == Last(runLog'[b])
                fusing == 2 * e.refresh >= obj[b].opts.minSafeHz /\ ~e.reduced
            IN IF fusing
               THEN /\ e.active
                    /\ rafQueue' = Append(rafQueue, Callback("loop", b, 0))
                    /\ surface' = surface
               ELSE /\ ~e.active
                    /\ rafQueue' = rafQueue
                    /\ Shown(surface'[obj[b].canvas].pixels) = FullText(obj[b].charLayout)
    ]_vars

\* both sides of the boundary at minSafeHz = 120: 60 Hz fuses, 59 Hz does not,
\* and 60 Hz with reduced motion does not either
C1_Witness ==
    \E b1, b2 \in DOMAIN runLog :
        /\ obj[b1].opts.minSafeHz = 120
        /\ runLog[b1] = <<[refresh |-> 60, reduced |-> FALSE, active |-> TRUE]>>
        /\ LoopScheduled(b1)
        /\ runLog[b2] \in {<<[refresh |-> 59, reduced |-> FALSE, active |-> FALSE]>>,
                           <<[refresh |-> 60, reduced |-> TRUE, active |-> FALSE]>>}
        /\ ~LoopScheduled(b2)

\* the loop ticks of a log are a constant, positive time apart
EvenlySpaced(log) ==
    /\ Len(log) >= 2
    /\ log[2].now > log[1].now
    /\ \A k \in 2..Len(log) : log[k].now - log[k - 1].now = log[2].now - log[1].now

\* toggles of the ticks after the first one
TogglesAfterFirst(log) == Cardinality({k \in 2..Len(log) : log[k].toggled})

\* floor(T / interval)
FloorDiv(T, interval) == (T * interval.den) \div interval.num

Abs(n) == IF n < 0 THEN 0 - n ELSE n

\* C2: a block activated once in Fusing mode, with swapInterval =
\* 1000 / (2 * measuredRefreshHz), whose loop ticks are a constant time apart:
\* over the time T from its first tick to its latest one, the number of parity
\* toggles is floor(T / swapInterval), give or take one.
C2_SwapCadence ==
    \A b \in DOMAIN tickLog :
        ( /\ Len(runLog[b]) = 1
          /\ runLog[b][1].active
          /\ runLog[b][1].refresh > 0
          /\ obj[b].swapInterval = SwapIntervalOf(2 * runLog[b][1].refresh)
          /\ EvenlySpaced(tickLog[b]) )
        => LET log == tickLog[b]
               T   == Last(log).now - log[1].now
           IN Abs(TogglesAfterFirst(log) - FloorDiv(T, obj[b].swapInterval)) <= 1

\* the glyphs of a layout whose index has the given parity, in order
GlyphsOfParity(layout, parity) ==
    SelectSeq(FullText(layout), LAMBDA g : g.i % 2 = parity)

\* run() of block b has selected Fusing at least once
HasFused(b) == \E k \in 1..Len(runLog[b]) : runLog[b][k].active

\* C3: once run() has selected Fusing for a text of at least two glyphs, the
\* output surface shows nothing, or exactly the even-indexed glyphs while
\* parity is 0, or exactly the odd-indexed glyphs while parity is 1; never
\* glyphs of both subsets.
C3_SingleFrameIllegible ==
    \A b \in DOMAIN obj :
        (Len(obj[b].charLayout) >= 2 /\ HasFused(b))
        => LET shown == Shown(surface[obj[b].canvas].pixels)
           IN \/ shown = <<>>
              \/ obj[b].parity = 0 /\ shown = GlyphsOfParity(obj[b].charLayout, 0)
              \/ obj[b].parity = 1 /\ shown = GlyphsOfParity(obj[b].charLayout, 1)

\* the layout indices painted on a render target
IndicesOn(target) == {target.pixels[k].i : k \in 1..Len(target.pixels)}

\* C4: in every constructed block with a layout of n glyphs, target A holds
\* exactly the glyphs of even index, ceil(n/2) of them, target B exactly those
\* of odd index, floor(n/2) of them, each painted once at its layout position:
\* the two targets are disjoint and cover the indices 0..n-1.
C4_SubsetPartition ==
    \A b \in DOMAIN obj :
        LET n == Len(obj[b].charLayout)
            A == obj[b].offA
            B == obj[b].offB
        IN /\ IndicesOn(A) = {i \in 0..(n - 1) : i % 2 = 0}
           /\ IndicesOn(B) = {i \in 0..(n - 1) : i % 2 = 1}
           /\ IndicesOn(A) \cap IndicesOn(B) = {}
           /\ IndicesOn(A) \cup IndicesOn(B) = 0..(n - 1)
           /\ Len(A.pixels) = (n + 1) \div 2
           /\ Len(B.pixels) = n \div 2
           /\ \A t \in {A, B} : \A k \in 1..Len(t.pixels) :
                 LET p == t.pixels[k]
                     g == obj[b].charLayout[p.i + 1]
                 IN p.ch = g.ch /\ p.x = g.x /\ p.y = g.y

\* a block of three glyphs: two on A, one on B
C4_Witness ==
    \E b \in DOMAIN obj :
        /\ Len(obj[b].charLayout) = 3
        /\ Len(obj[b].offA.pixels) = 2
        /\ Len(obj[b].offB.pixels) = 1

\* C5: whenever run() selects Static, the output surface then holds every
\* glyph of the layout exactly once, in order, at its layout position.
C5_StaticLegible ==
    [][\A b \in DOMAIN runLog :
         (Resolves(b) /\ ~Last(runLog'[b]).active)
         => LET px == surface'[obj[b].canvas].pixels
                n  == Len(obj[b].charLayout)
            IN /\ Len(px) = n
               /\ \A k \in 1..n :
                     /\ px[k].i = k - 1
                     /\ px[k].ch = obj[b].charLayout[k].ch
                     /\ px[k].x = obj[b].charLayout[k].x
                     /\ px[k].y = obj[b].charLayout[k].y
    ]_vars

\* a block of at least two glyphs fell back to Static and shows them all
C5_Witness ==
    \E b \in DOMAIN runLog :
        /\ runLog[b] # <<>>
        /\ ~Last(runLog[b]).active
        /\ Len(obj[b].charLayout) >= 2
        /\ Len(surface[obj[b].canvas].pixels) = Len(obj[b].charLayout)

\* C6: the mode of a block is decided once: every run() of the block resolves
\* with the value its first run() resolved with.
C6_ModeTerminal ==
    \A b \in DOMAIN runLog :
        \A k \in 1..Len(runLog[b]) : runLog[b][k].active = runLog[b][1].active

\* refresh probes in progress: callbacks of detectRefresh awaited
ProbesInProgress ==
    Cardinality({i \in 1..Len(rafQueue) : rafQueue[i].kind # "loop"})
    + Cardinality({i \in 1..Len(frameQueue) : frameQueue[i].kind # "loop"})

\* block b has entered its mode: the loop is requested, or the static paint is
\* on its surface and no loop is requested
EnteredFusing(b) == LoopScheduled(b)

EnteredStatic(b) ==
    /\ ~LoopScheduled(b)
    /\ Shown(surface[obj[b].canvas].pixels) = FullText(obj[b].charLayout)

\* C7: in renderTemporalFusionParagraphs at most one refresh probe is in
\* progress at any time, and whenever the surface of a later paragraph exists,
\* every earlier block has finished its probe, entered its mode (static paint
\* done or loop requested) and has its result in the results array.
C7_Sequential ==
    /\ ProbesInProgress <= 1
    /\ \A i, j \in DOMAIN surface :
          i < j =>
             /\ i \in DOMAIN obj
             /\ PendingProbes(i) = 0
             /\ Len(runLog[i]) = 1
             /\ IF runLog[i][1].active THEN EnteredFusing(i) ELSE EnteredStatic(i)
             /\ Len(results) >= i
             /\ results[i] = runLog[i][1].active

\* the second block is probing after the first one has been settled
C7_Witness ==
    /\ 2 \in DOMAIN obj
    /\ PendingProbes(2) = 1
    /\ Len(results) = 1
    /\ Len(runLog[1]) = 1

\* the characters of a text that are glyphs
NonNewline(text) == SelectSeq(text, LAMBDA ch : ch # NL)

\* C8: when renderTemporalFusionParagraphs returns for n paragraphs, the
\* container holds n surfaces, the i-th one that of paragraph i, and results
\* holds n booleans, the i-th true exactly if block i entered Fusing and false
\* exactly if it fell back to Static.
C8_ResultAlignment ==
    orchPc = "returned" =>
        LET n == Len(paragraphs) IN
        /\ Len(container) = n
        /\ Len(results) = n
        /\ \A i \in 1..n :
              /\ container[i] \in DOMAIN obj
              /\ obj[container[i]].canvas = container[i]
              /\ \A j \in 1..n : container[i] = container[j] => i = j
              /\ [k \in 1..Len(obj[container[i]].charLayout) |->
                     obj[container[i]].charLayout[k].ch] = NonNewline(paragraphs[i])
              /\ results[i] <=> EnteredFusing(container[i])
              /\ ~results[i] <=> EnteredStatic(container[i])

\* two paragraphs, the first fused and the second static
C8_Witness ==
    /\ orchPc = "returned"
    /\ results = <<TRUE, FALSE>>
    /\ paragraphs[1] # paragraphs[2]

\* C9: when acquiring a drawing context fails for a block, the error reaches
\* the caller and nothing of the block stays live: no frame callback of the
\* block is requested and its surface is not attached to the container.
C9_FailureLeavesNothing ==
    thrown # "" =>
        /\ orchPc = "rejected"
        /\ ~LoopScheduled(orchIdx)
        /\ PendingProbes(orchIdx) = 0
        /\ \A k \in 1..Len(container) : container[k] # orchIdx

\* measureText widths with every non-positive width replaced by zero
ZeroedAnomalies(widthOf) ==
    [c \in DOMAIN widthOf |-> IF widthOf[c] <= 0 THEN 0 ELSE widthOf[c]]

\* C10: computeLayout places every glyph, and a glyph whose measured width is
\* not positive counts as zero-width: the layout is the one computed with
\* that width taken as 0.
C10_AnomalyAsZeroWidth ==
    layoutOut # <<>> =>
        /\ Len(layoutOut[1]) = Len(NonNewline(paragraphs[1]))
        /\ layoutOut[1] = ComputeLayout(paragraphs[1], OrchWidth,
                                        MergeOptions(DEFAULT_OPTIONS, opts),
                                        ZeroedAnomalies(measure))

\* the options computeLayout works with
Resolved == MergeOptions(DEFAULT_OPTIONS, opts)

\* U: the surface width less both horizontal margins
UsableWidth == OrchWidth - 2 * Resolved.marginX

\* the text has no newline and every glyph of it measures w
UniformWidth(text, w) ==
    \A i \in 1..Len(text) : text[i] # NL /\ measure[text[i]] = w

\* the lines of a layout that were ended by a wrap: every line but the last
FullLines(layout) ==
    IF layout = <<>>
    THEN {}
    ELSE {layout[k].y : k \in 1..Len(layout)} \ {layout[Len(layout)].y}

GlyphsOn(layout, y) == Cardinality({k \in 1..Len(layout) : layout[k].y = y})

Max2(a, b) == IF a >= b THEN a ELSE b

\* C11 as stated, for a line that has room for a glyph: in a newline-free
\* text of glyphs of one width w, every full line holds exactly
\* floor(U / (w + gap)) glyphs.
C11_FloorOfUsableWidth ==
    \A w \in Widths :
        (/\ layoutOut # <<>>
         /\ w > 0
         /\ UsableWidth >= w
         /\ UniformWidth(paragraphs[1], w)) =>
            \A y \in FullLines(layoutOut[1]) :
                GlyphsOn(layoutOut[1], y) = UsableWidth \div (w + Gap)

\* C11 (amended): in a newline-free text of glyphs of one width w >= 0, every
\* full line holds exactly max(1, floor((U + gap) / (w + gap))) glyphs, the
\* last glyph of a line needing no gap after it; a glyph that exactly fills
\* the remaining width stays on the line, and a glyph wider than that wraps to
\* the start of the next line.
C11_WrapCorrectness ==
    \A w \in Widths :
        (/\ layoutOut # <<>>
         /\ w >= 0
         /\ UniformWidth(paragraphs[1], w)) =>
            LET layout == layoutOut[1]
                maxX == OrchWidth - Resolved.marginX
            IN  /\ \A y \in FullLines(layout) :
                      GlyphsOn(layout, y) =
                          Max2(1, (UsableWidth + Gap) \div (w + Gap))
                /\ \A k \in 2..Len(layout) :
                      LET remaining == maxX - (layout[k - 1].x + w + Gap)
                      IN  IF w <= remaining
                          THEN /\ layout[k].y = layout[k - 1].y
                               /\ layout[k].x = layout[k - 1].x + w + Gap
                          ELSE /\ layout[k].y = layout[k - 1].y + Resolved.lineHeight
                               /\ layout[k].x = Resolved.marginX

\* three glyphs of one width: the second exactly fills the first line, the
\* third wraps
C11_Witness ==
    /\ layoutOut # <<>>
    /\ \E w \in Widths : w > 0 /\ UniformWidth(paragraphs[1], w)
    /\ Len(layoutOut[1]) = 3
    /\ layoutOut[1][2].y = layoutOut[1][1].y
    /\ layoutOut[1][2].x + measure[layoutOut[1][2].ch]
           = OrchWidth - Resolved.marginX
    /\ layoutOut[1][3].y = layoutOut[1][1].y + Resolved.lineHeight

\* the characters of a layout, in order
CharsOf(layout) == [k \in 1..Len(layout) |-> layout[k].ch]

\* C12: the characters of the layout, in order, are the characters of the
\* text that are not newlines: none is dropped, doubled or moved, a newline
\* is never a glyph, and the empty text has the empty layout. The layout the
\* constructor keeps is of the same kind.
C12_LayoutCoverage ==
    /\ layoutOut # <<>> =>
          /\ CharsOf(layoutOut[1]) = NonNewline(paragraphs[1])
          /\ \A k \in 1..Len(layoutOut[1]) : layoutOut[1][k].ch # NL
          /\ paragraphs[1] = <<>> => layoutOut[1] = <<>>
    /\ \A b \in DOMAIN obj :
          CharsOf(obj[b].charLayout) = NonNewline(paragraphs[b])

\* a text of different glyphs with a newline between them, laid out with a
\* wrap
C12_Witness ==
    /\ layoutOut # <<>>
    /\ Len(paragraphs[1]) = 4
    /\ paragraphs[1][2] = NL
    /\ Len(layoutOut[1]) = 3
    /\ layoutOut[1][1].ch # layoutOut[1][2].ch
    /\ layoutOut[1][3].y > layoutOut[1][2].y

\* the position in the text of the k-th glyph
PosOf(text, k) ==
    CHOOSE i \in 1..Len(text) :
        /\ text[i] # NL
        /\ Cardinality({j \in 1..i : text[j] # NL}) = k

\* the number of newlines that stand directly before position p
NewlinesBefore(text, p) ==
    Cardinality({j \in 1..(p - 1) : \A i \in j..(p - 1) : text[i] = NL})

\* C13: a glyph that follows newlines starts at x = marginX, whatever the
\* horizontal position before them was, and every newline has moved it one
\* lineHeight down from the line of the glyph before (from marginY at the
\* start of the text); a glyph too wide for the line moves one line further.
C13_NewlineHandling ==
    layoutOut # <<>> =>
        LET text == paragraphs[1]
            layout == layoutOut[1]
        IN  \A k \in 1..Len(layout) :
                LET p == PosOf(text, k)
                    n == NewlinesBefore(text, p)
                    base == IF k = 1 THEN Resolved.marginY ELSE layout[k - 1].y
                    wide == Resolved.marginX + measure[text[p]]
                                > OrchWidth - Resolved.marginX
                IN  n > 0 =>
                        /\ layout[k].x = Resolved.marginX
                        /\ layout[k].y = base + n * Resolved.lineHeight
                              + (IF wide THEN Resolved.lineHeight ELSE 0)

\* two newlines after a glyph that moved the cursor to the right
C13_Witness ==
    /\ layoutOut # <<>>
    /\ Len(paragraphs[1]) = 4
    /\ paragraphs[1][1] # NL
    /\ paragraphs[1][2] = NL
    /\ paragraphs[1][3] = NL
    /\ paragraphs[1][4] # NL
    /\ measure[paragraphs[1][1]] > 0
    /\ Len(layoutOut[1]) = 2
    /\ layoutOut[1][2].x = Resolved.marginX
    /\ layoutOut[1][2].y = layoutOut[1][1].y + 2 * Resolved.lineHeight

\* the example: "AB\nC", margins 10, line height 20, every glyph 10 wide, on
\* a surface wide enough to hold A and B on one line
ExampleInput ==
    /\ paragraphs[1] = <<"A", "B", NL, "C">>
    /\ Resolved.marginX = 10
    /\ Resolved.marginY = 10
    /\ Resolved.lineHeight = 20
    /\ \A c \in Chars : measure[c] = 10
    /\ OrchWidth - Resolved.marginX >= 32

ExampleLayout == <<Glyph("A", 10, 10), Glyph("B", 22, 10), Glyph("C", 10, 30)>>

\* C14: for the example, computeLayout gives A at (10, 10), B at (22, 10) and
\* C at (10, 30); target A is painted with A and C (indices 0 and 2) and
\* target B with B (index 1), each at its layout position.
C14_EndToEndExample ==
    ExampleInput =>
        /\ layoutOut # <<>> => layoutOut[1] = ExampleLayout
        /\ \A b \in DOMAIN obj :
              /\ obj[b].charLayout = ExampleLayout
              /\ Shown(obj[b].offA.pixels) =
                     <<[i |-> 0, ch |-> "A", x |-> 10, y |-> 10],
                       [i |-> 2, ch |-> "C", x |-> 10, y |-> 30]>>
              /\ Shown(obj[b].offB.pixels) =
                     <<[i |-> 1, ch |-> "B", x |-> 22, y |-> 10]>>

\* the example laid out and its block constructed
C14_Witness ==
    /\ ExampleInput
    /\ layoutOut # <<>>
    /\ obj # <<>>

\* C15: the layout renderTemporalFusionParagraphs computes to size the
\* surface of a paragraph and the layout the constructor keeps for the same
\* paragraph are the same sequence: same length, characters and coordinates.
C15_SizingEqualsRendering ==
    \A b \in DOMAIN obj : obj[b].charLayout = SizingLayout(paragraphs[b])

\* this step is a tick of block b's loop
Ticks(b) == Len(tickLog'[b]) = Len(tickLog[b]) + 1

\* C16: a tick of a block at time now toggles parity once and sets lastSwap
\* to now if now - lastSwap >= swapInterval, equality included and however
\* many intervals have passed; otherwise it leaves both as they are; it never
\* changes swapInterval; and no other step changes parity or lastSwap.
C16_TickStep ==
    [][\A b \in DOMAIN obj :
          LET before == obj[b]
              after == obj'[b]
              due == (clock - before.lastSwap) * before.swapInterval.den
                         >= before.swapInterval.num
          IN  IF Ticks(b)
              THEN /\ due => /\ after.parity = 1 - before.parity
                             /\ after.lastSwap = clock
                   /\ ~due => /\ after.parity = before.parity
                              /\ after.lastSwap = before.lastSwap
                   /\ after.swapInterval = before.swapInterval
              ELSE /\ after.parity = before.parity
                   /\ after.lastSwap = before.lastSwap]_vars

\* a loop whose interval is a whole 8 1/3 ms has just toggled at a tick that
\* came exactly one interval after the toggle before
C16_Witness ==
    \E b \in DOMAIN obj :
        LET log == tickLog[b]
            n == Len(log)
        IN  /\ Len(runLog[b]) = 1
            /\ n >= 2
            /\ log[n].toggled
            /\ log[n - 1].toggled
            /\ obj[b].lastSwap = log[n].now
            /\ (log[n].now - log[n - 1].now) * obj[b].swapInterval.den
                   = obj[b].swapInterval.num

\* run() of block b has selected Static at least once
SelectedStatic(b) == \E k \in 1..Len(runLog[b]) : ~runLog[b][k].active

\* C17: once run() has selected Static for a block, no loop callback of the
\* block is requested, no tick of its loop runs, and its output surface is
\* not modified again after the static paint.
C17_StaticDoesNoMoreWork ==
    [][\A b \in DOMAIN obj :
          SelectedStatic(b) =>
              /\ ~LoopScheduled(b)'
              /\ tickLog'[b] = tickLog[b]
              /\ surface'[obj[b].canvas] = surface[obj[b].canvas]]_vars

\* the blocks frame callbacks have been requested for
BlocksOfCallbacks ==
    {rafQueue[i].block : i \in 1..Len(rafQueue)}
        \cup {frameQueue[i].block : i \in 1..Len(frameQueue)}

\* C18: within a block, layout, painting of both targets, mode decision and
\* static paint or loop follow in this order: a block that has a probe, a
\* decision or a loop has its layout and both targets completely painted; a
\* loop callback or tick is there only after run() has decided for Fusing;
\* the output surface is painted only after a decision; and what a tick
\* copies to the output surface is a completely painted target.
C18_BlockOrdering ==
    /\ BlocksOfCallbacks \subseteq DOMAIN obj
    /\ \A b \in DOMAIN obj :
          LET layout == obj[b].charLayout
              shown == Shown(surface[obj[b].canvas].pixels)
          IN  /\ CharsOf(layout) = NonNewline(paragraphs[b])
              /\ Shown(obj[b].offA.pixels) = GlyphsOfParity(layout, 0)
              /\ Shown(obj[b].offB.pixels) = GlyphsOfParity(layout, 1)
              /\ (LoopScheduled(b) \/ tickLog[b] # <<>>) => HasFused(b)
              /\ shown # <<>> => runLog[b] # <<>>
              /\ (tickLog[b] # <<>> /\ ~SelectedStatic(b)) =>
                     shown = GlyphsOfParity(layout, obj[b].parity)

\* a loop of a text of three glyphs has ticked and shows target B
C18_Witness ==
    \E b \in DOMAIN obj :
        /\ Len(obj[b].charLayout) = 3
        /\ tickLog[b] # <<>>
        /\ LoopScheduled(b)
        /\ obj[b].parity = 1
        /\ Len(surface[obj[b].canvas].pixels) = 1

\* the longest time between two frames
MaxDelta == CHOOSE d \in Deltas : \A e \in Deltas : e <= d

\* the model's clock leaves room for two more frames
TwoFramesLeft == clock + 2 * MaxDelta <= MaxTime

\* C19: every tick of a loop requests exactly one further frame callback, that
\* of the same loop; and while the host goes on delivering frames a scheduled
\* loop goes on: from every state with a loop scheduled, the parity is
\* eventually toggled and the other target is shown on the output surface.
C19_LoopNeverStops ==
    /\ [][\A b \in DOMAIN obj :
             Ticks(b) => rafQueue' = Append(rafQueue, Callback("loop", b, 0))]_vars
    /\ \A b \in 1..MaxParagraphs : \A p \in {0, 1} :
          (/\ b \in DOMAIN obj
           /\ LoopScheduled(b)
           /\ obj[b].parity = p
           /\ TwoFramesLeft)
          ~> (/\ b \in DOMAIN obj
              /\ obj[b].parity = 1 - p
              /\ Shown(surface[obj[b].canvas].pixels)
                     = GlyphsOfParity(obj[b].charLayout, 1 - p))

\* a loop has shown target B and then target A again, and is still scheduled
C19_Witness ==
    \E b \in DOMAIN obj :
        /\ Len(obj[b].charLayout) = 3
        /\ Cardinality({k \in 1..Len(tickLog[b]) : tickLog[b][k].toggled}) >= 2
        /\ obj[b].parity = 0
        /\ Len(surface[obj[b].canvas].pixels) = 2
        /\ LoopScheduled(b)

\* the refresh rate measured by the last run() of block b that selected Fusing
ActivationRefresh(b) ==
    LET k == CHOOSE k \in 1..Len(runLog[b]) :
                 /\ runLog[b][k].active
                 /\ \A j \in (k + 1)..Len(runLog[b]) : ~runLog[b][j].active
    IN  runLog[b][k].refresh

\* C20: a tick of a block's loop leaves both render targets, the layout, the
\* options and swapInterval as they are, and writes only parity, lastSwap and
\* the pixels of the block's own output surface; and from activation on
\* swapInterval is 1000 / (2 * measured refresh rate).
C20_TickFrame ==
    /\ [][\A b \in DOMAIN obj :
             Ticks(b) =>
                 /\ obj' = [obj EXCEPT ![b].parity = obj'[b].parity,
                                       ![b].lastSwap = obj'[b].lastSwap]
                 /\ surface' = [surface EXCEPT ![obj[b].canvas].pixels =
                                                   surface'[obj[b].canvas].pixels]
                 /\ UNCHANGED <<inputVars, container, runLog>>]_vars
    /\ [](\A b \in DOMAIN obj :
             HasFused(b) =>
                 obj[b].swapInterval =
                     [num |-> TicksPerSecond, den |-> 2 * ActivationRefresh(b)])

\* a loop of a text of three glyphs, activated at a measured 59 Hz, has
\* ticked without toggling
C20_Witness ==
    \E b \in DOMAIN obj :
        /\ Len(obj[b].charLayout) = 3
        /\ HasFused(b)
        /\ ActivationRefresh(b) = 59
        /\ \E k \in 1..Len(tickLog[b]) : ~tickLog[b][k].toggled
        /\ Len(obj[b].offA.pixels) = 2
        /\ Len(obj[b].offB.pixels) = 1

\* C21: a glyph wider than the usable width is placed at x = marginX, whole;
\* when it is the first character of the text it is at (marginX, marginY).
C21_OverWideGlyph ==
    (/\ layoutOut # <<>>
     /\ OrchWidth >= 0
     /\ CharsOf(layoutOut[1]) = NonNewline(paragraphs[1])) =>
        \A k \in 1..Len(layoutOut[1]) :
            measure[layoutOut[1][k].ch] > UsableWidth =>
                /\ layoutOut[1][k].x = Resolved.marginX
                /\ PosOf(paragraphs[1], k) = 1 =>
                       layoutOut[1][k].y = Resolved.marginY

\* the glyphs of a text all have a width that is not negative
NonNegativeWidths(text) ==
    \A i \in 1..Len(text) : text[i] # NL => measure[text[i]] >= 0

C24_ConfigInvariant ==
    \A b \in DOMAIN obj :
        /\ \A k \in DOMAIN DEFAULT_OPTIONS :
              obj[b].opts[k] = IF k \in DOMAIN opts THEN opts[k]
                               ELSE DEFAULT_OPTIONS[k]
        /\ obj[b].opts.opacity >= 0
        /\ obj[b].opts.opacity <= 100
        /\ obj[b].opts.marginX >= 0
        /\ obj[b].opts.marginY >= 0
        /\ obj[b].opts.lineHeight >= 0

\* the toggles among the first n ticks of block b
TogglesUpTo(log, n) == Cardinality({k \in 1..n : log[k].toggled})

\* C25: a block starts with parity 0 and lastSwap 0 and keeps them until its
\* first tick; the first tick toggles the parity to 1 and copies target B,
\* the odd-indexed glyphs, to the output surface; and a tick copies target A
\* only when the parity has been toggled a second time.
C25_FirstVisibleBuffer ==
    /\ [](\A b \in DOMAIN obj :
             /\ tickLog[b] = <<>> => obj[b].parity = 0 /\ obj[b].lastSwap = 0
             /\ tickLog[b] # <<>> => tickLog[b][1].toggled)
    /\ [][\A b \in DOMAIN obj :
             Ticks(b) =>
                 LET shown == Shown(surface'[obj[b].canvas].pixels)
                     layout == obj[b].charLayout
                 IN  /\ tickLog[b] = <<>> =>
                            /\ obj'[b].parity = 1
                            /\ shown = GlyphsOfParity(layout, 1)
                     /\ (layout # <<>> /\ shown = GlyphsOfParity(layout, 0)) =>
                            /\ obj'[b].parity = 0
                            /\ TogglesUpTo(tickLog'[b], Len(tickLog'[b])) >= 2]_vars

\* a loop of three glyphs after exactly one tick: parity 1, B on the surface
C25_Witness ==
    \E b \in DOMAIN obj :
        /\ Len(obj[b].charLayout) = 3
        /\ Len(tickLog[b]) = 1
        /\ obj[b].parity = 1
        /\ Shown(surface[obj[b].canvas].pixels) = GlyphsOfParity(obj[b].charLayout, 1)

====
